---- MODULE Spec2Model ----
(***************************************************************************)
(* Model of bot_flask.py: a Flask webhook endpoint in front of a           *)
(* pyTelegramBotAPI bot (CinemaBot) that browses TMDB catalogs and keeps a *)
(* set of subscribed chat ids in persistence.json.                         *)
(*                                                                         *)
(* handle_start and handle_stop advance one operation at a time (a set     *)
(* mutation, a file write, an outbound call), since the bot runs handlers  *)
(* on two worker threads that share the set and the file.  The browsing    *)
(* handlers share nothing and are one step each.                           *)
(***************************************************************************)
EXTENDS Integers, Sequences, FiniteSets, TLC

VARIABLES
    env,               \* which of the four environment variables are set
    file,              \* content of persistence.json
    pcMain,            \* position of the module's top-level code
    criticalLogged,    \* logger.critical was called (line 33)
    subscribed_chats,  \* CinemaBot.subscribed_chats
    queue,             \* tasks waiting in the bot's worker pool
    workers,           \* the worker threads of the bot's pool
    req,               \* the HTTP request Flask is handling
    webhook,           \* webhook registration as left by index()
    nUpdates,          \* number of POSTs received so far (bounded)
    nRestarts,         \* number of process restarts so far (bounded)
    answered,          \* ids of the updates answered with 200
    handled,           \* ids of the updates whose handler has ended
    history,           \* per chat: the start and stop commands handled, in order
    movie,             \* caption formatting: the movie dict given to the formatter
    caption            \* caption formatting: the stars and the rating shown

vars == <<env, file, pcMain, criticalLogged, subscribed_chats, queue, workers,
          req, webhook, nUpdates, nRestarts, answered, handled, history,
          movie, caption>>

ratingVars == <<movie, caption>>

\* What a handler step that only talks to the outside leaves alone.
sharedVars == <<env, file, pcMain, criticalLogged, subscribed_chats, queue,
                req, webhook, nUpdates, nRestarts, answered, handled, history>>

-----------------------------------------------------------------------------
(* Bounds of the model *)

\* POSTs received in a run of the whole program and of the process.
MaxUpdates == 2

\* POSTs received in a run under commands only.
MaxCommands == 3

\* POSTs received in a run under browsing updates only.
MaxBrowse == 1

\* Largest rating given to the formatter, in tenths (10.0).
MaxTenths == 100

MaxRestarts == 1

(* Program constants *)

\* Worker threads of a TeleBot built without threaded=False / num_threads.
NumThreads == 2

\* movies[:5]
PageSize == 5

Chats == {1, 2}

MovieIds == {550, 603}

Range(s) == {s[i] : i \in 1..Len(s)}

Take(s, n) == SubSeq(s, 1, IF Len(s) < n THEN Len(s) ELSE n)

-----------------------------------------------------------------------------
(* persistence.json  (load_state, save_state) *)

\* The file is absent, or holds text that is not JSON ("invalid": empty or
\* truncated), JSON that is not an object ("nonobject": [] or null), an object
\* without the key ("nokey"), an object whose subscribed_chats is not a list
\* ("badlist": a number), or an object with a list of chat ids ("object").
FileOf(kind, chats) == [kind |-> kind, chats |-> chats]

MissingFile == FileOf("missing", <<>>)

\* Lists a state file may hold at process start: written by an earlier run, or
\* edited by hand (a repeated id).
StartLists == {<<>>, <<1>>, <<2, 1>>, <<1, 1>>}

StartFiles ==
    {FileOf(k, <<>>) : k \in {"missing", "invalid", "nonobject", "nokey", "badlist"}}
    \cup {FileOf("object", l) : l \in StartLists}

\* What open() and json.load(f).get("subscribed_chats", []) and set() raise.
LoadException(f) ==
    CASE f.kind = "missing"   -> "FileNotFoundError"
      [] f.kind = "invalid"   -> "JSONDecodeError"
      [] f.kind = "nonobject" -> "AttributeError"
      [] f.kind = "badlist"   -> "TypeError"
      [] OTHER                -> "none"

\* except (FileNotFoundError, json.JSONDecodeError)
LoadCaught == {"FileNotFoundError", "JSONDecodeError"}

\* set(json.load(f).get("subscribed_chats", []))
LoadedSet(f) == IF f.kind = "object" THEN Range(f.chats) ELSE {}

\* load_state on an instance whose set is `current`: the set afterwards and
\* the exception that leaves the method, if any.
load_state(f, current) ==
    LET e == LoadException(f) IN
    IF e = "none" THEN [raised |-> "none", chats |-> LoadedSet(f)]
    ELSE IF e \in LoadCaught THEN [raised |-> "none", chats |-> current]
    ELSE [raised |-> e, chats |-> current]

\* list(s): the elements of s once each, in an order the set's hashing fixes.
ListsOf(s) ==
    {l \in UNION {[1..n -> s] : n \in {Cardinality(s)}} : Range(l) = s}

\* A save that dumps an empty list whatever the set holds.
SaveEmptyList(s) == {FileOf("object", <<>>)}

\* save_state: the contents open("w") + json.dump may leave in the file.
save_state(s) == {FileOf("object", l) : l \in ListsOf(s)}

-----------------------------------------------------------------------------
(* Inbound updates *)

\* Message texts the platform may deliver: the three commands, the six button
\* labels (written without their emoji), and texts that match nothing (string
\* comparison is case-sensitive).
StartCommands == {"/start", "/ajuda"}

StopCommands == {"/stop"}

SuggestionLabel == "Sugestao"

CategoryLabels ==
    {"Em Cartaz", "Populares", "Em Breve", "Melhores Avaliados", "Classicos"}

OtherTexts == {"hello", "em cartaz"}

Texts ==
    StartCommands \cup StopCommands \cup CategoryLabels
    \cup {SuggestionLabel} \cup OtherTexts

\* A lookup that ignores the case of the text.
ActionsIgnoringCase(text) ==
    CASE text \in {"Em Cartaz", "em cartaz"} -> "now_playing"
      [] text = "Populares"          -> "popular"
      [] text = "Em Breve"           -> "upcoming"
      [] text = "Melhores Avaliados" -> "top_rated"
      [] text = "Classicos"          -> "classics"
      [] OTHER                       -> "none"

\* actions.get(text): the category key of a button label, "none" for any
\* other text.
actions(text) ==
    CASE text = "Em Cartaz"          -> "now_playing"
      [] text = "Populares"          -> "popular"
      [] text = "Em Breve"           -> "upcoming"
      [] text = "Melhores Avaliados" -> "top_rated"
      [] text = "Classicos"          -> "classics"
      [] OTHER                       -> "none"

\* Callback data is a string; the model writes it as its sequence of tokens,
\* "_" being the separator character.
\* str(id) of a movie id, and int(token): the id a token spells, 0 when int()
\* raises ValueError.
StrOf(m) == IF m = 550 THEN "550" ELSE IF m = 603 THEN "603" ELSE "?"

IntOf(tok) == IF tok = "550" THEN 550 ELSE IF tok = "603" THEN 603 ELSE 0

\* f"details_{movie['id']}"
DetailsToken(m) == <<"details", "_", StrOf(m)>>

CallbackData ==
    {DetailsToken(m) : m \in MovieIds}
    \cup {<<"bogus">>, <<"details", "_", "abc">>, <<"share", "_", "550">>}

NoData == <<>>

Messages ==
    {[type |-> "message", chat |-> c, text |-> t, data |-> NoData] :
        c \in Chats, t \in Texts}

CallbackQueries ==
    {[type |-> "callback_query", chat |-> c, text |-> "", data |-> d] :
        c \in Chats, d \in CallbackData}

Updates == Messages \cup CallbackQueries

NoUpdate == [type |-> "none", chat |-> 0, text |-> "", data |-> NoData]

\* Content-Type headers of inbound POSTs ("" is a request without the header).
ContentTypes ==
    {"application/json", "text/plain", "application/json; charset=utf-8", ""}

-----------------------------------------------------------------------------
(* Process start: module configuration and construction *)

\* A movie dict as far as the caption and the poster use it: vote_average is
\* a number (in tenths), null, or absent.
MovieOf(key, tenths, poster) ==
    [key |-> key, tenths |-> tenths, poster |-> poster]

NoMovie == MovieOf("absent", 0, FALSE)

NoCaption == [stars |-> 0, shown |-> 0, raised |-> "none", done |-> FALSE]

EnvNames == {"TELEGRAM_BOT_TOKEN", "TMDB_API_KEY", "TELEGRAM_BOT_USERNAME",
             "RENDER_EXTERNAL_URL"}

\* The variables line 32 tests: all([TOKEN, TMDB_API_KEY, BOT_USERNAME]).
CheckedEnv == {"TELEGRAM_BOT_TOKEN", "TMDB_API_KEY", "TELEGRAM_BOT_USERNAME"}

IdleWorker ==
    [pc |-> "idle", uid |-> 0, upd |-> NoUpdate, sent |-> <<>>, calls |-> <<>>,
     raised |-> "none"]

NoRequest == [stage |-> "none", ctype |-> "", uid |-> 0, status |-> 0]

FreshMemory ==
    /\ pcMain = "config"
    /\ criticalLogged = FALSE
    /\ subscribed_chats = {}
    /\ queue = <<>>
    /\ workers = [w \in 1..NumThreads |-> IdleWorker]
    /\ req = NoRequest
    /\ answered = {}
    /\ handled = {}
    /\ history = [c \in Chats |-> <<>>]

-----------------------------------------------------------------------------
(* TMDBClient *)

\* What requests.get, raise_for_status and response.json() can do with one
\* call: answer 2xx with a JSON body, or raise.  A listing body is an object
\* with or without "results".
ResultLists == {<<>>, <<603, 550>>, <<550, 603, 550, 603, 550, 603>>}

ListingBody(has, results) == [has |-> has, results |-> results]

NoBody == ListingBody(FALSE, <<>>)

\* The exception each failure raises: a transport error, a timeout, a 4xx/5xx
\* status (raise_for_status), a body that is not JSON (response.json()).
FailureException(failure) ==
    CASE failure = "transport"    -> "ConnectionError"
      [] failure = "timeout"      -> "Timeout"
      [] failure = "bad_status"   -> "HTTPError"
      [] failure = "invalid_json" -> "JSONDecodeError"
      [] OTHER                    -> "none"

Failures == {"transport", "timeout", "bad_status", "invalid_json"}

\* An except clause that names the transport failures only.
TransportErrorsOnly == {"ConnectionError", "Timeout"}

\* The classes of requests.exceptions under RequestException that the calls
\* above raise (requests.exceptions.JSONDecodeError is one of them).
RequestException == {"ConnectionError", "Timeout", "HTTPError", "JSONDecodeError"}

ListingResponses ==
    {[failure |-> "none", body |-> ListingBody(TRUE, l)] : l \in ResultLists}
    \cup {[failure |-> "none", body |-> NoBody]}
    \cup {[failure |-> f, body |-> NoBody] : f \in Failures}

\* Ratings a detail body may carry (tenths), next to null and an absent key.
DetailRatings == {70}

DetailMovies ==
    {MovieOf("number", t, p) : t \in DetailRatings, p \in BOOLEAN}
    \cup {MovieOf(k, 0, p) : k \in {"absent", "null"}, p \in BOOLEAN}

DetailResponses ==
    {[failure |-> "none", body |-> m] : m \in DetailMovies}
    \cup {[failure |-> f, body |-> NoMovie] : f \in Failures}

\* _make_request: the JSON body, or None when a RequestException was caught;
\* any other exception leaves the method.
make_request(resp) ==
    LET e == FailureException(resp.failure) IN
    IF e = "none" THEN [raised |-> "none", isNone |-> FALSE]
    ELSE IF e \in RequestException THEN [raised |-> "none", isNone |-> TRUE]
    ELSE [raised |-> e, isNone |-> TRUE]

\* get_movies and get_classic_movies: (_make_request(...) or {}).get("results", [])
get_movies(resp) ==
    LET r == make_request(resp) IN
    [raised |-> r.raised,
     movies |-> IF r.isNone \/ ~resp.body.has THEN <<>> ELSE resp.body.results]

\* get_details: the body, or None
get_details(resp) ==
    LET r == make_request(resp) IN
    [raised |-> r.raised, isNone |-> r.isNone,
     film |-> IF r.isNone THEN NoMovie ELSE resp.body]

\* get_poster_url: a URL when poster_path is set, else None
get_poster_url(film) == film.poster

-----------------------------------------------------------------------------
(* Caption formatting *)

\* Python's round(x) of x = t/d for t >= 0: to the nearest integer, a tie to
\* the even one.
PyRound(t, d) ==
    LET q == t \div d
        r == t % d
    IN  IF 2 * r < d THEN q
        ELSE IF 2 * r > d THEN q + 1
        ELSE IF q % 2 = 0 THEN q ELSE q + 1

\* format_rating: the number of stars of  "*" * int(round(rating or 0) / 2);
\* `rating or 0` is 0 for None; round() yields an int, / 2 a float, int()
\* truncates it.
format_rating(key, tenths) ==
    LET rating == IF key = "number" THEN tenths ELSE 0
    IN  PyRound(rating, 10) \div 2

\* _format_movie_details_text: rating = movie.get("vote_average", 0.0);
\* the stars of format_rating(rating) and the tenths f"{rating:.1f}" shows;
\* the format raises TypeError on None.
format_movie_details_text(film) ==
    LET key == IF film.key = "absent" THEN "number" ELSE film.key
        tenths == IF film.key = "number" THEN film.tenths ELSE 0
    IN  [stars |-> format_rating(key, tenths),
         shown |-> tenths,
         raised |-> IF key = "null" THEN "TypeError" ELSE "none",
         done |-> TRUE]

\* The process starts: any environment, any state file.
InitProcess ==
    /\ env \in [EnvNames -> BOOLEAN]
    /\ file \in StartFiles
    /\ FreshMemory
    /\ webhook = "unknown"
    /\ nUpdates = 0
    /\ nRestarts = 0
    /\ movie = NoMovie
    /\ caption = NoCaption

\* Lines 24-34: read the environment; log a critical error when one of the
\* three tested variables is unset, and go on.
Configure ==
    /\ pcMain = "config"
    /\ criticalLogged' = (\E n \in CheckedEnv : ~env[n])
    /\ pcMain' = "construct"
    /\ UNCHANGED <<env, file, subscribed_chats, queue, workers, req, webhook,
                   nUpdates, nRestarts, answered, handled, history>>
    /\ UNCHANGED ratingVars

\* Lines 218-220: TMDBClient(...), CinemaBot(...): TeleBot(token), an empty set,
\* load_state, register_handlers.  An exception that leaves load_state ends
\* the import, and with it the process.
Construct ==
    /\ pcMain = "construct"
    /\ LET r == load_state(file, {}) IN
           /\ subscribed_chats' = r.chats
           /\ pcMain' = IF r.raised = "none" THEN "routes" ELSE "crashed"
    /\ UNCHANGED <<env, file, criticalLogged, queue, workers, req, webhook,
                   nUpdates, nRestarts, answered, handled, history>>
    /\ UNCHANGED ratingVars

\* TeleBot(None): releases of the library that validate the token raise here.
ConstructRejectsToken ==
    /\ pcMain = "construct"
    /\ ~env["TELEGRAM_BOT_TOKEN"]
    /\ pcMain' = "crashed"
    /\ UNCHANGED <<env, file, criticalLogged, subscribed_chats, queue, workers,
                   req, webhook, nUpdates, nRestarts, answered, handled, history>>
    /\ UNCHANGED ratingVars

\* Lines 223-238: Flask(__name__) and the two routes.  '/' + TOKEN raises
\* TypeError when TOKEN is None; otherwise the import ends and the host
\* serves the application.
Routes ==
    /\ pcMain = "routes"
    /\ pcMain' = IF env["TELEGRAM_BOT_TOKEN"] THEN "serving" ELSE "crashed"
    /\ UNCHANGED <<env, file, criticalLogged, subscribed_chats, queue, workers,
                   req, webhook, nUpdates, nRestarts, answered, handled, history>>
    /\ UNCHANGED ratingVars

\* The host stops the process and starts it again: memory is lost, the file
\* and the environment stay.
Restart ==
    /\ pcMain \in {"serving", "crashed"}
    /\ nRestarts < MaxRestarts
    /\ nRestarts' = nRestarts + 1
    /\ pcMain' = "config"
    /\ criticalLogged' = FALSE
    /\ subscribed_chats' = {}
    /\ queue' = <<>>
    /\ workers' = [w \in 1..NumThreads |-> IdleWorker]
    /\ req' = NoRequest
    /\ answered' = {}
    /\ handled' = {}
    /\ history' = [c \in Chats |-> <<>>]
    /\ UNCHANGED <<env, file, webhook, nUpdates>>
    /\ UNCHANGED ratingVars

-----------------------------------------------------------------------------
(* Flask routes *)

\* The attributes of the telebot module the program uses.  abort is a name
\* of flask, which the program does not import (line 14 imports Flask and
\* request only): telebot.abort raises AttributeError, and Flask answers an
\* exception that leaves a view with 500.
TelebotNames == {"TeleBot", "types", "apihelper"}

\* The status of the else branch of get_message: telebot.abort(403).
RejectStatus == IF "abort" \in TelebotNames THEN 403 ELSE 500

\* request.headers.get('content-type') == 'application/json'
AcceptsContentType(ct) == ct = "application/json"

\* The host handles one request at a time; `max` bounds the POSTs of a run.
CanReceive(max) ==
    /\ pcMain = "serving"
    /\ req.stage \in {"none", "done"}
    /\ nUpdates < max

Task(uid, upd) == [uid |-> uid, upd |-> upd]

Request(stage, ct, uid, status) ==
    [stage |-> stage, ctype |-> ct, uid |-> uid, status |-> status]

\* get_message, accepted: Update.de_json, then bot.process_new_updates.  The
\* bot was built as TeleBot(token, parse_mode='Markdown') (line 78), so it is
\* threaded: process_new_updates puts the handler call on the worker pool's
\* queue and returns.
GetMessageDispatch(ct, upd, max) ==
    /\ CanReceive(max)
    /\ AcceptsContentType(ct)
    /\ nUpdates' = nUpdates + 1
    /\ queue' = Append(queue, Task(nUpdates + 1, upd))
    /\ req' = Request("dispatched", ct, nUpdates + 1, 0)
    /\ UNCHANGED <<env, file, pcMain, criticalLogged, subscribed_chats, workers,
                   webhook, nRestarts, answered, handled, history>>
    /\ UNCHANGED ratingVars

\* get_message: return '!', 200
GetMessageReturn ==
    /\ pcMain = "serving"
    /\ req.stage = "dispatched"
    /\ req' = Request("done", req.ctype, req.uid, 200)
    /\ answered' = answered \cup {req.uid}
    /\ UNCHANGED <<env, file, pcMain, criticalLogged, subscribed_chats, queue,
                   workers, webhook, nUpdates, nRestarts, handled, history>>
    /\ UNCHANGED ratingVars

\* get_message, any other content type: telebot.abort(403)
GetMessageReject(ct, max) ==
    /\ CanReceive(max)
    /\ ~AcceptsContentType(ct)
    /\ nUpdates' = nUpdates + 1
    /\ req' = Request("done", ct, nUpdates + 1, RejectStatus)
    /\ UNCHANGED <<env, file, pcMain, criticalLogged, subscribed_chats, queue,
                   workers, webhook, nRestarts, answered, handled, history>>
    /\ UNCHANGED ratingVars

\* index: remove_webhook, sleep, set_webhook(url=WEBHOOK_URL).  WEBHOOK_URL
\* is f"{RENDER_URL}/{TOKEN}": without RENDER_EXTERNAL_URL it is "None/<token>",
\* which the platform refuses, and the webhook stays removed.
Index ==
    /\ pcMain = "serving"
    /\ req.stage \in {"none", "done"}
    /\ webhook' = IF env["RENDER_EXTERNAL_URL"] THEN "registered" ELSE "removed"
    /\ UNCHANGED <<env, file, pcMain, criticalLogged, subscribed_chats, queue,
                   workers, req, nUpdates, nRestarts, answered, handled, history>>
    /\ UNCHANGED ratingVars

-----------------------------------------------------------------------------
(* The bot's worker pool *)

Msg(kind, chat) ==
    [kind |-> kind, chat |-> chat, mid |-> 0, stars |-> 0, shown |-> 0,
     buttons |-> <<>>]

\* register_handlers: the first handler whose filter accepts the update.
HandlerOf(upd) ==
    IF upd.type = "callback_query" THEN "handle_callback_query"
    ELSE IF upd.text \in StartCommands THEN "handle_start"
    ELSE IF upd.text \in StopCommands THEN "handle_stop"
    ELSE "handle_text_buttons"

Steps(w, rec) == workers' = [workers EXCEPT ![w] = rec]

Send(rec, msg) == [rec EXCEPT !.sent = Append(@, msg)]

\* The log of a handler's metadata-API calls: the endpoint and how the call
\* ended ("none": a 2xx answer with a JSON body).
Called(rec, endpoint, resp) ==
    [rec EXCEPT !.calls = Append(@, [endpoint |-> endpoint,
                                     failure |-> resp.failure])]

Raise(rec, exc) == [rec EXCEPT !.pc = "done", !.raised = exc]

Return(rec) == [rec EXCEPT !.pc = "done"]

At(w, pc) == pcMain = "serving" /\ workers[w].pc = pc

\* A worker thread takes the next task from the pool's queue.
WorkerTake(w) ==
    /\ At(w, "idle")
    /\ queue # <<>>
    /\ queue' = Tail(queue)
    /\ Steps(w, [IdleWorker EXCEPT !.pc = HandlerOf(Head(queue).upd),
                                   !.uid = Head(queue).uid,
                                   !.upd = Head(queue).upd])
    /\ UNCHANGED <<env, file, pcMain, criticalLogged, subscribed_chats, req,
                   webhook, nUpdates, nRestarts, answered, handled, history>>
    /\ UNCHANGED ratingVars

\* The handler has returned or raised (the worker thread logs the exception
\* and goes on); the thread waits for the next task.
WorkerLoop(w) ==
    /\ At(w, "done")
    /\ handled' = handled \cup {workers[w].uid}
    /\ Steps(w, IdleWorker)
    /\ UNCHANGED <<env, file, pcMain, criticalLogged, subscribed_chats, queue,
                   req, webhook, nUpdates, nRestarts, answered, history>>
    /\ UNCHANGED ratingVars

-----------------------------------------------------------------------------
(* handle_start and handle_stop, one step per operation on the set, the     *)
(* file or the platform: two worker threads may interleave them.           *)

\* self.subscribed_chats.add(chat_id)
AddChat(s, c) == s \cup {c}

\* A remove that leaves the id in the set.
RemoveChatKeeps(s, c) == s

\* self.subscribed_chats.remove(chat_id)
RemoveChat(s, c) == s \ {c}

Handled(c, cmd) == history' = [history EXCEPT ![c] = Append(@, cmd)]

\* handle_start: subscribed_chats.add(chat_id)
StartAdd(w) ==
    /\ At(w, "handle_start")
    /\ subscribed_chats' = AddChat(subscribed_chats, workers[w].upd.chat)
    /\ Handled(workers[w].upd.chat, "start")
    /\ Steps(w, [workers[w] EXCEPT !.pc = "start_save"])
    /\ UNCHANGED <<env, file, pcMain, criticalLogged, queue, req, webhook,
                   nUpdates, nRestarts, answered, handled>>
    /\ UNCHANGED ratingVars

\* handle_start: save_state()
StartSave(w) ==
    /\ At(w, "start_save")
    /\ file' \in save_state(subscribed_chats)
    /\ Steps(w, [workers[w] EXCEPT !.pc = "start_send"])
    /\ UNCHANGED <<env, pcMain, criticalLogged, subscribed_chats, queue, req,
                   webhook, nUpdates, nRestarts, answered, handled, history>>
    /\ UNCHANGED ratingVars

\* handle_start: send_message(chat_id, greeting, reply_markup=markup)
StartSend(w) ==
    /\ At(w, "start_send")
    /\ Steps(w, Return(Send(workers[w], Msg("greeting", workers[w].upd.chat))))
    /\ UNCHANGED sharedVars
    /\ UNCHANGED ratingVars

\* handle_stop: if chat_id in self.subscribed_chats
StopCheck(w) ==
    /\ At(w, "handle_stop")
    /\ IF workers[w].upd.chat \in subscribed_chats
       THEN /\ Steps(w, [workers[w] EXCEPT !.pc = "stop_remove"])
            /\ UNCHANGED history
       ELSE /\ Steps(w, Return(workers[w]))
            /\ Handled(workers[w].upd.chat, "stop")
    /\ UNCHANGED <<env, file, pcMain, criticalLogged, subscribed_chats, queue,
                   req, webhook, nUpdates, nRestarts, answered, handled>>
    /\ UNCHANGED ratingVars

\* handle_stop: subscribed_chats.remove(chat_id); KeyError when another
\* thread removed the id since the test.
StopRemove(w) ==
    /\ At(w, "stop_remove")
    /\ subscribed_chats' = RemoveChat(subscribed_chats, workers[w].upd.chat)
    /\ Handled(workers[w].upd.chat, "stop")
    /\ IF workers[w].upd.chat \in subscribed_chats
       THEN Steps(w, [workers[w] EXCEPT !.pc = "stop_save"])
       ELSE Steps(w, Raise(workers[w], "KeyError"))
    /\ UNCHANGED <<env, file, pcMain, criticalLogged, queue, req, webhook,
                   nUpdates, nRestarts, answered, handled>>
    /\ UNCHANGED ratingVars

\* handle_stop: save_state()
StopSave(w) ==
    /\ At(w, "stop_save")
    /\ file' \in save_state(subscribed_chats)
    /\ Steps(w, [workers[w] EXCEPT !.pc = "stop_send"])
    /\ UNCHANGED <<env, pcMain, criticalLogged, subscribed_chats, queue, req,
                   webhook, nUpdates, nRestarts, answered, handled, history>>
    /\ UNCHANGED ratingVars

\* handle_stop: send_message(chat_id, confirmation)
StopSend(w) ==
    /\ At(w, "stop_send")
    /\ Steps(w, Return(Send(workers[w], Msg("stopped", workers[w].upd.chat))))
    /\ UNCHANGED sharedVars
    /\ UNCHANGED ratingVars

-----------------------------------------------------------------------------
(* The browsing handlers.  They touch neither the set nor the file, so each *)
(* is one action: the handler from its entry to its return or exception.   *)

\* What the outside does during one handler run: the answer of the listing
\* call, the item random.choice picks, the answer of the detail call, and
\* whether delete_message succeeds.  (The page random.randint(1, 10) picks
\* only selects which listing answer comes back.)
OutsideOf(listings, picks, details, deletions) ==
    [listing : listings, pick : picks, details : details, deleted : deletions]

NoListing == [failure |-> "none", body |-> NoBody]

NoDetails == [failure |-> "transport", body |-> NoMovie]

NoPick == CHOOSE m \in MovieIds : TRUE

\* The outside as far as the handler of `upd` consults it: a callback query
\* makes the detail call and the deletion, the suggestion label the listing
\* call, the choice and the detail call, a category label the listing call,
\* any other text nothing.
Outside(upd) ==
    IF upd.type = "callback_query"
    THEN OutsideOf({NoListing}, {NoPick}, DetailResponses, BOOLEAN)
    ELSE IF upd.text = SuggestionLabel
    THEN OutsideOf(ListingResponses, MovieIds, DetailResponses, {FALSE})
    ELSE IF actions(upd.text) # "none"
    THEN OutsideOf(ListingResponses, {NoPick}, {NoDetails}, {FALSE})
    ELSE OutsideOf({NoListing}, {NoPick}, {NoDetails}, {FALSE})

\* The endpoint send_movie_list asks: discover/movie for 'classics', else
\* movie/<category>.
ListEndpoint(category) ==
    IF category = "classics" THEN "discover/movie" ELSE category

\* f"{media_type}/{content_id}" of get_details('movie', movie_id)
DetailEndpoint(mid) == IF mid = 550 THEN "movie/550" ELSE "movie/603"

\* show_movie_details(chat_id, movie_id, message_to_edit)
show_movie_details(me, mid, edit, out) ==
    LET chat == me.upd.chat
        r == get_details(out.details)
        fetched == Called(me, DetailEndpoint(mid), out.details)
        text == format_movie_details_text(r.film)
        cleared == IF edit /\ out.deleted
                   THEN Send(fetched, Msg("delete", chat)) ELSE fetched
        kind == IF get_poster_url(r.film) THEN "photo" ELSE "text"
    IN  IF r.raised # "none" THEN Raise(fetched, r.raised)
        ELSE IF r.isNone
        THEN Return(Send(fetched, Msg("details_error", chat)))
        ELSE IF text.raised # "none" THEN Raise(fetched, text.raised)
        ELSE Return(Send(cleared, [Msg(kind, chat) EXCEPT
                 !.mid = mid, !.stars = text.stars, !.shown = text.shown]))

\* send_movie_list(chat_id, category, title): "searching", the listing call,
\* then the not-found message or one button per movie of movies[:5], each
\* with callback data details_<id>.
send_movie_list(me, category, out) ==
    LET chat == me.upd.chat
        r == get_movies(out.listing)
        fetched == Called(Send(me, Msg("searching", chat)),
                          ListEndpoint(category), out.listing)
        page == Take(r.movies, PageSize)
    IN  IF r.raised # "none" THEN Raise(fetched, r.raised)
        ELSE IF r.movies = <<>>
        THEN Return(Send(fetched, Msg("not_found", chat)))
        ELSE Return(Send(fetched, [Msg("list", chat) EXCEPT !.buttons =
                 [i \in 1..Len(page) |-> DetailsToken(page[i])]]))

\* send_suggestion(chat_id): "searching", get_movies('popular', page), then
\* the detail view of random.choice(movies) or the failure message.
send_suggestion(me, out) ==
    LET chat == me.upd.chat
        r == get_movies(out.listing)
        fetched == Called(Send(me, Msg("suggesting", chat)), "popular",
                          out.listing)
    IN  IF r.raised # "none" THEN Raise(fetched, r.raised)
        ELSE IF r.movies # <<>>
        THEN show_movie_details(fetched, out.pick, FALSE, out)
        ELSE Return(Send(fetched, Msg("no_suggestion", chat)))

\* random.choice(movies) can only pick an item of the list.
CanPick(out) ==
    LET movies == get_movies(out.listing).movies
    IN  IF movies # <<>> THEN out.pick \in Range(movies) ELSE out.pick = NoPick

\* handle_text_buttons(message)
handle_text_buttons(me, out) ==
    IF me.upd.text = SuggestionLabel THEN send_suggestion(me, out)
    ELSE IF actions(me.upd.text) # "none"
    THEN send_movie_list(me, actions(me.upd.text), out)
    ELSE Return(me)

\* call.data.split('_', 1): the parts before and after the first separator,
\* or the whole string when it holds none.
FirstSeparator(data) ==
    IF \E i \in 1..Len(data) : data[i] = "_"
    THEN CHOOSE i \in 1..Len(data) :
             data[i] = "_" /\ \A j \in 1..(i - 1) : data[j] # "_"
    ELSE 0

Split1(data) ==
    LET i == FirstSeparator(data) IN
    IF i = 0 THEN <<data>>
    ELSE <<SubSeq(data, 1, i - 1), SubSeq(data, i + 1, Len(data))>>

\* int(value): the id, or 0 for a ValueError
ParseInt(value) == IF Len(value) = 1 THEN IntOf(value[1]) ELSE 0

\* handle_callback_query(call): answer_callback_query(call.id), then
\*   action, value = call.data.split('_', 1)
\*   if action == 'details': show_movie_details(chat, int(value), message)
handle_callback_query(me, out) ==
    LET answered_ == Send(me, Msg("answer_callback", me.upd.chat))
        parts == Split1(me.upd.data)
    IN  IF Len(parts) # 2 THEN Raise(answered_, "ValueError")
        ELSE IF parts[1] # <<"details">> THEN Return(answered_)
        ELSE IF ParseInt(parts[2]) = 0 THEN Raise(answered_, "ValueError")
        ELSE show_movie_details(answered_, ParseInt(parts[2]), TRUE, out)

TextButtons(w) ==
    /\ At(w, "handle_text_buttons")
    /\ \E out \in Outside(workers[w].upd) :
           /\ CanPick(out)
           /\ Steps(w, handle_text_buttons(workers[w], out))
    /\ UNCHANGED sharedVars
    /\ UNCHANGED ratingVars

CallbackQuery(w) ==
    /\ At(w, "handle_callback_query")
    /\ \E out \in Outside(workers[w].upd) :
           Steps(w, handle_callback_query(workers[w], out))
    /\ UNCHANGED sharedVars
    /\ UNCHANGED ratingVars

-----------------------------------------------------------------------------
(* The caption formatter on its own *)

RatingInputs ==
    {MovieOf("number", t, FALSE) : t \in 0..MaxTenths}
    \cup {MovieOf("absent", 0, FALSE), MovieOf("null", 0, FALSE)}

\* _format_movie_details_text(movie)
FormatDetails ==
    /\ ~caption.done
    /\ caption' = format_movie_details_text(movie)
    /\ UNCHANGED movie
    /\ UNCHANGED sharedVars
    /\ UNCHANGED workers

-----------------------------------------------------------------------------
(* Specifications *)

FullEnv == [n \in EnvNames |-> TRUE]

\* The state after construction (lines 218-238 done) in a configured
\* deployment: the set is what load_state read from the state file.
Constructed ==
    /\ env = FullEnv
    /\ file \in {f \in StartFiles : load_state(f, {}).raised = "none"}
    /\ subscribed_chats = load_state(file, {}).chats
    /\ pcMain = "serving"
    /\ criticalLogged = FALSE
    /\ queue = <<>>
    /\ workers = [w \in 1..NumThreads |-> IdleWorker]
    /\ req = NoRequest
    /\ answered = {}
    /\ handled = {}
    /\ history = [c \in Chats |-> <<>>]
    /\ webhook = "unknown"
    /\ nUpdates = 0
    /\ nRestarts = 0

\* A first deployment (no state file) or one with two subscribers.
DeployedFiles == {MissingFile, FileOf("object", <<2, 1>>)}

Init ==
    /\ Constructed
    /\ file \in DeployedFiles
    /\ movie = NoMovie
    /\ caption = NoCaption

\* As Init, with any state file load_state accepts.
InitAnyFile ==
    /\ Constructed
    /\ movie = NoMovie
    /\ caption = NoCaption

Subscription(w) ==
    \/ StartAdd(w) \/ StartSave(w) \/ StartSend(w)
    \/ StopCheck(w) \/ StopRemove(w) \/ StopSave(w) \/ StopSend(w)

Browsing(w) == TextButtons(w) \/ CallbackQuery(w)

\* The serving program: any update, any content type.
Next ==
    \/ \E ct \in ContentTypes, upd \in Updates :
           GetMessageDispatch(ct, upd, MaxUpdates)
    \/ \E ct \in ContentTypes : GetMessageReject(ct, MaxUpdates)
    \/ GetMessageReturn
    \/ \E w \in 1..NumThreads :
           WorkerTake(w) \/ Subscription(w) \/ Browsing(w) \/ WorkerLoop(w)

Spec == Init /\ [][Next]_vars

\* The serving program under start and stop commands only.
CommandMessages ==
    {m \in Messages : m.text \in StartCommands \cup StopCommands}

NextCommands ==
    \/ \E ct \in ContentTypes, upd \in CommandMessages :
           GetMessageDispatch(ct, upd, MaxCommands)
    \/ GetMessageReturn
    \/ \E w \in 1..NumThreads :
           WorkerTake(w) \/ Subscription(w) \/ WorkerLoop(w)

SpecCommands == InitAnyFile /\ [][NextCommands]_vars

\* Sequential handling: an update arrives only when the one before it has
\* been handled.
PoolIdle == queue = <<>> /\ \A w \in 1..NumThreads : workers[w].pc = "idle"

NextSequential ==
    \/ \E ct \in ContentTypes, upd \in CommandMessages :
           PoolIdle /\ GetMessageDispatch(ct, upd, MaxCommands)
    \/ GetMessageReturn
    \/ \E w \in 1..NumThreads :
           WorkerTake(w) \/ Subscription(w) \/ WorkerLoop(w)

SpecSequential == InitAnyFile /\ [][NextSequential]_vars

\* The serving program under button texts, free texts and button taps only.
BrowsingUpdates == Updates \ CommandMessages

NextBrowsing ==
    \/ \E ct \in ContentTypes, upd \in BrowsingUpdates :
           GetMessageDispatch(ct, upd, MaxBrowse)
    \/ GetMessageReturn
    \/ \E w \in 1..NumThreads :
           WorkerTake(w) \/ Browsing(w) \/ WorkerLoop(w)

SpecBrowsing == Init /\ [][NextBrowsing]_vars

\* The process from its start, restarts included, under commands.
Startup == Configure \/ Construct \/ ConstructRejectsToken \/ Routes

NextProcess ==
    \/ Startup
    \/ Restart
    \/ Index
    \/ \E ct \in ContentTypes, upd \in CommandMessages :
           GetMessageDispatch(ct, upd, MaxUpdates)
    \/ \E ct \in ContentTypes : GetMessageReject(ct, MaxUpdates)
    \/ GetMessageReturn
    \/ \E w \in 1..NumThreads :
           WorkerTake(w) \/ Subscription(w) \/ WorkerLoop(w)

SpecProcess == InitProcess /\ [][NextProcess]_vars

\* The caption formatter applied to every rating of the scale.
InitRating ==
    /\ Constructed
    /\ file = MissingFile
    /\ movie \in RatingInputs
    /\ caption = NoCaption

SpecRating == InitRating /\ [][FormatDetails]_vars

-----------------------------------------------------------------------------
(* Properties *)

LastCommand(c) ==
    IF history[c] = <<>> THEN "none" ELSE history[c][Len(history[c])]

MembershipFollowsLastCommand ==
    \A c \in Chats :
        LastCommand(c) # "none" =>
            /\ (c \in subscribed_chats) <=> (LastCommand(c) = "start")
            /\ history[c] = <<"start", "stop", "start">> =>
                   Cardinality({x \in subscribed_chats : x = c}) = 1

OthersKeepMembership ==
    \A c \in Chats :
        history'[c] = history[c] =>
            ((c \in subscribed_chats') <=> (c \in subscribed_chats))

\* C1: a chat id is in the Subscription Set exactly when the last command
\* handled for it was start (start, stop, start leaves it present once), and
\* a step that handles no command of a chat leaves its membership alone.
C1_MembershipIsLastCommand ==
    [](MembershipFollowsLastCommand) /\ [][OthersKeepMembership]_vars

C1_StartStopStartHandled ==
    \E c \in Chats :
        /\ history[c] = <<"start", "stop", "start">>
        /\ c \in subscribed_chats
        /\ PoolIdle

\* The file holds exactly the list of the set: every id once.
Saved(f, s) ==
    /\ f.kind = "object"
    /\ Range(f.chats) = s
    /\ Len(f.chats) = Cardinality(s)

\* C2: under sequential handling, a start or stop handler that is about to
\* reply has saved the set, and once a handler has returned (and whenever
\* the pool is idle) the chat ids in the file are those of the set.
C2_FileMatchesSet ==
    /\ \A w \in 1..NumThreads :
           /\ workers[w].pc \in {"start_send", "stop_send"} =>
                  Saved(file, subscribed_chats)
           /\ workers[w].pc = "done" =>
                  /\ LoadedSet(file) = subscribed_chats
                  /\ workers[w].sent # <<>> => Saved(file, subscribed_chats)
    /\ PoolIdle => LoadedSet(file) = subscribed_chats

C2_StopSavedAndReplied ==
    \E w \in 1..NumThreads :
        /\ workers[w].pc = "done"
        /\ workers[w].upd.text \in StopCommands
        /\ workers[w].sent # <<>>
        /\ workers[w].upd.chat \notin subscribed_chats
        /\ subscribed_chats # {}
        /\ Saved(file, subscribed_chats)

\* save_state then load_state on a fresh instance gives the set back.
RoundTrip ==
    \A s \in SUBSET Chats :
        \A f \in save_state(s) :
            load_state(f, {}) = [raised |-> "none", chats |-> s]

\* The fresh instance has run load_state (the token is set, so nothing else
\* can have ended the construction).
Loaded ==
    /\ env["TELEGRAM_BOT_TOKEN"]
    /\ pcMain \in {"routes", "crashed"}

\* C3: save_state followed by load_state on a fresh instance gives the same
\* set, and load_state on a missing or malformed file gives the empty set
\* without failing the process.
C3_LoadNeverFails ==
    /\ RoundTrip
    /\ Loaded =>
           /\ pcMain = "routes"
           /\ subscribed_chats = LoadedSet(file)

\* Update uid was never handed to the bot.
NotDispatched(uid) ==
    /\ uid \notin handled
    /\ \A i \in 1..Len(queue) : queue[i].uid # uid
    /\ \A w \in 1..NumThreads : workers[w].uid # uid

\* C4: a POST with any content type but application/json is answered 403
\* and dispatches nothing; one with application/json is answered 200.
C4_RejectedWith403 ==
    req.stage = "done" =>
        IF AcceptsContentType(req.ctype)
        THEN req.status = 200
        ELSE req.status = 403 /\ NotDispatched(req.uid)

HasSeparator(data) == \E i \in 1..Len(data) : data[i] = "_"

Kinds(sent) == [i \in 1..Len(sent) |-> sent[i].kind]

\* C5: details_<id> opens the detail view of movie <id>; callback data
\* without a separator is ignored silently: the tap is acknowledged, no
\* detail view is opened and no exception is raised.
C5_BogusTokenIgnored ==
    \A w \in 1..NumThreads :
        (workers[w].pc = "done" /\ workers[w].upd.type = "callback_query") =>
            /\ \A m \in MovieIds :
                   workers[w].upd.data = DetailsToken(m) =>
                       /\ Len(workers[w].calls) = 1
                       /\ workers[w].calls[1].endpoint = DetailEndpoint(m)
            /\ ~HasSeparator(workers[w].upd.data) =>
                   /\ Kinds(workers[w].sent) = <<"answer_callback">>
                   /\ workers[w].calls = <<>>
                   /\ workers[w].raised = "none"

\* C6: when get_message has returned 200 for an update, the handler of that
\* update has completed, and at most one update is being handled at a time.
C6_HandledBeforeAnswered ==
    /\ answered \subseteq handled
    /\ Cardinality({w \in 1..NumThreads : workers[w].pc # "idle"}) <= 1

Unmatched(upd) ==
    /\ upd.type = "message"
    /\ upd.text \notin StartCommands \cup StopCommands
    /\ upd.text \notin CategoryLabels \cup {SuggestionLabel}

SilentWhenUnmatched ==
    \A w \in 1..NumThreads :
        (workers[w].pc = "done" /\ Unmatched(workers[w].upd)) =>
            /\ workers[w].sent = <<>>
            /\ workers[w].calls = <<>>
            /\ workers[w].raised = "none"

UnmatchedChangesNothing ==
    \A w \in 1..NumThreads :
        (Unmatched(workers[w].upd) /\ workers'[w] # workers[w]) =>
            /\ subscribed_chats' = subscribed_chats
            /\ file' = file

\* C7: a free-text message that matches no button label sends nothing, calls
\* the metadata API not at all and leaves the set and its file unchanged.
C7_UnmatchedTextIsSilent ==
    [](SilentWhenUnmatched) /\ [][UnmatchedChangesNothing]_vars

C7_UnmatchedTextHandled ==
    \E w \in 1..NumThreads :
        /\ workers[w].pc = "done"
        /\ workers[w].upd.text = "em cartaz"
        /\ workers[w].sent = <<>>

\* C8: format_rating(r) gives round(r/2) stars, between 0 and 5, displayed
\* before (r/10) with one decimal; 7.0 gives 4 stars, 0 or an absent rating
\* 0 stars and (0.0/10).
C8_StarsAreHalfTheRating ==
    (caption.done /\ movie.key # "null") =>
        /\ caption.raised = "none"
        /\ caption.stars = PyRound(IF movie.key = "number" THEN movie.tenths ELSE 0, 20)
        /\ caption.stars \in 0..5
        /\ caption.shown = (IF movie.key = "number" THEN movie.tenths ELSE 0)
        /\ movie.tenths = 70 => caption.stars = 4

ListingFailed(rec) ==
    /\ rec.pc = "done"
    /\ rec.upd.type = "message"
    /\ rec.calls # <<>>
    /\ rec.calls[1].failure # "none"

\* C9: get_movies and get_classic_movies return the empty list and raise
\* nothing when the HTTP call fails (transport error, timeout, bad status,
\* invalid JSON); send_movie_list and send_suggestion then send their
\* not-found message.
C9_FailedListingIsEmpty ==
    /\ \A resp \in ListingResponses :
           resp.failure # "none" =>
               get_movies(resp) = [raised |-> "none", movies |-> <<>>]
    /\ \A w \in 1..NumThreads :
           ListingFailed(workers[w]) =>
               /\ workers[w].raised = "none"
               /\ Len(workers[w].calls) = 1
               /\ Kinds(workers[w].sent) =
                      IF workers[w].upd.text = SuggestionLabel
                      THEN <<"suggesting", "no_suggestion">>
                      ELSE <<"searching", "not_found">>

C9_InvalidJsonAnswered ==
    \E w \in 1..NumThreads :
        /\ ListingFailed(workers[w])
        /\ workers[w].calls[1].failure = "invalid_json"
        /\ workers[w].calls[1].endpoint = "discover/movie"
        /\ Kinds(workers[w].sent) = <<"searching", "not_found">>

\* C10: with one of the four configuration inputs absent, startup logs a
\* critical error and the process never serves requests.
C10_HalfConfiguredNeverServes ==
    (\E n \in EnvNames : ~env[n]) =>
        /\ pcMain # "serving"
        /\ pcMain # "config" => criticalLogged

====
